---- MODULE Spec2Model ----
(***************************************************************************)
(* Job-state coordinator of scripts/state_manager.py: the manifest file,   *)
(* the repos/ source root, the per-unit output directories, and the five   *)
(* commands init, next, mark, status and reset-running.                    *)
(***************************************************************************)
EXTENDS Integers, Sequences, FiniteSets, TLC

\* ------------------------------------------------------------------ bounds
\* Number of distinct unit names that may appear under repos/.
MaxUnits == 2
\* Number of units in the manifests the control loop is started on.
MaxLoopUnits == 3
\* Largest --limit passed to next (limits range over -1..MaxLimit).
MaxLimit == 2

\* ------------------------------------------------------------- name universe
\* Directory names in lexicographic (code point) order, and str(item) for each.
NamePool == <<"a", "b", "c", "d", "e">>
PathPool == <<"repos/a", "repos/b", "repos/c", "repos/d", "repos/e">>
Names == {NamePool[i] : i \in 1..MaxUnits}
NameRank(n) == CHOOSE i \in 1..Len(NamePool) : NamePool[i] = n

\* Entries of repos/ that are not units: a hidden directory and a plain file.
HiddenDir == [name |-> ".git", is_dir |-> TRUE, hidden |-> TRUE]
PlainFile == [name |-> "README.md", is_dir |-> FALSE, hidden |-> FALSE]
UnitDir(n) == [name |-> n, is_dir |-> TRUE, hidden |-> FALSE]
\* str(item) for item = REPOS_DIR / name.
ItemPath(n) == PathPool[NameRank(n)]

\* ------------------------------------------------------------------ Status
PENDING == "pending"
IN_PROGRESS == "in_progress"
COMPLETED == "completed"
FAILED == "failed"
\* A Status enumeration with a fifth member.
Status_five == <<"pending", "in_progress", "completed", "failed", "done">>
\* [s.value for s in Status], in definition order.
Status == <<PENDING, IN_PROGRESS, COMPLETED, FAILED>>
StatusValues == {Status[i] : i \in 1..Len(Status)}
\* A status string that is not a member of Status.
InvalidStatus == "done"

\* --------------------------------------------------------------- variables
VARIABLES
    file,      \* forensics-output/.state/manifest.json: [exists, text]
    repos,     \* repos/: [exists, entries]
    outdirs,   \* names n for which forensics-output/frameworks/n exists
    last,      \* the last command run: its arguments, exit code, output, pre-state
    procs,     \* concurrent commands: each one's position, request and memory
    audit,     \* what the concurrent commands have done so far
    loop       \* the orchestrator's control loop: position, batch, agents in flight

vars == <<file, repos, outdirs, last, procs, audit, loop>>
\* The variables that sequential commands leave alone.
nonSeq == <<procs, audit, loop>>

\* ------------------------------------------------------------ dict helpers
\* A dict is a sequence of items [name, data] with unique names (insertion order).
Keys(d) == {d[i].name : i \in 1..Len(d)}
KeySeq(d) == [i \in 1..Len(d) |-> d[i].name]
Has(d, k) == k \in Keys(d)
Get(d, k) == d[CHOOSE i \in 1..Len(d) : d[i].name = k].data
\* d[k] = v
DictSet(d, k, v) ==
    IF Has(d, k)
    THEN [i \in 1..Len(d) |-> IF d[i].name = k THEN [name |-> k, data |-> v] ELSE d[i]]
    ELSE Append(d, [name |-> k, data |-> v])
EmptyManifest == [frameworks |-> <<>>]

\* ------------------------------------------------------------ json text
\* The file's text as a token sequence: "{" then name, status, path per unit
\* (in dict order) then "}".
dumps_items(d) ==
    [k \in 1..(3 * Len(d)) |->
        LET it == d[(k + 2) \div 3] IN
        CASE k % 3 = 1 -> it.name
          [] k % 3 = 2 -> it.data.status
          [] OTHER -> it.data.path]
\* sorted(frameworks.items()): by name.
RECURSIVE sorted_items(_)
sorted_items(d) ==
    IF d = <<>> THEN <<>>
    ELSE LET m == CHOOSE i \in 1..Len(d) :
                      \A j \in 1..Len(d) : NameRank(d[i].name) <= NameRank(d[j].name)
             rest == [k \in 1..(Len(d) - 1) |-> IF k < m THEN d[k] ELSE d[k + 1]]
         IN <<d[m]>> \o sorted_items(rest)

\* json.dumps with sort_keys=True.
dumps_sorted(manifest) ==
    <<"{">> \o dumps_items(sorted_items(manifest.frameworks)) \o <<"}">>
dumps(manifest) == <<"{">> \o dumps_items(manifest.frameworks) \o <<"}">>

\* json.loads succeeds only on a complete document.
WellFormed(text) ==
    /\ Len(text) >= 2
    /\ text[1] = "{"
    /\ text[Len(text)] = "}"
    /\ (Len(text) - 2) % 3 = 0
    /\ \A i \in 2..(Len(text) - 1) : text[i] \notin {"{", "}"}
\* The units of a complete document, in document order (the documents the
\* program writes never repeat a key).
loads_items(text) ==
    [i \in 1..((Len(text) - 2) \div 3) |->
        [name |-> text[3 * i - 1],
         data |-> [status |-> text[3 * i], path |-> text[3 * i + 1]]]]
loads(text) == [frameworks |-> loads_items(text)]

\* ------------------------------------------------------------ manifest store
\* One byte left in the file behind a complete document.
Residue == "~"
NoFile == [exists |-> FALSE, text |-> <<>>]
FileWith(text) == [exists |-> TRUE, text |-> text]

\* A byte that is not valid UTF-8: read_text() raises UnicodeDecodeError, which
\* is not a json.JSONDecodeError and is not caught by get_manifest.
BadByte == "0xff"
read_text_raises(f) == f.exists /\ \E i \in 1..Len(f.text) : f.text[i] = BadByte

get_manifest(f) ==
    IF ~f.exists THEN EmptyManifest
    ELSE IF WellFormed(f.text) THEN loads(f.text)
    ELSE EmptyManifest

save_manifest(manifest) == FileWith(dumps(manifest))

\* ------------------------------------------------------------ init
\* REPOS_DIR.iterdir() yields the entries in arbitrary order: every ordering.
Orders(S) ==
    {o \in [1..Cardinality(S) -> S] : \A i, j \in 1..Cardinality(S) : i # j => o[i] # o[j]}

\* A scan loop that moves the entry of a directory it already tracks to the
\* end of the dict.
RECURSIVE scan_rebuild(_, _)
scan_rebuild(listing, frameworks) ==
    IF listing = <<>> THEN frameworks
    ELSE LET item == Head(listing)
             rest == SelectSeq(frameworks, LAMBDA it : it.name # item.name)
             fw == IF item.is_dir /\ ~item.hidden
                   THEN IF Has(frameworks, item.name)
                        THEN Append(rest, [name |-> item.name,
                                           data |-> Get(frameworks, item.name)])
                        ELSE DictSet(frameworks, item.name,
                                     [status |-> "pending", path |-> ItemPath(item.name)])
                   ELSE frameworks
         IN scan_rebuild(Tail(listing), fw)

\* The scan loop of init_state over one listing, adding unknown unit directories.
RECURSIVE scan(_, _)
scan(listing, frameworks) ==
    IF listing = <<>> THEN frameworks
    ELSE LET item == Head(listing)
             fw == IF item.is_dir /\ ~item.hidden /\ ~Has(frameworks, item.name)
                   THEN DictSet(frameworks, item.name,
                                [status |-> PENDING, path |-> ItemPath(item.name)])
                   ELSE frameworks
         IN scan(Tail(listing), fw)

found_frameworks(listing) ==
    {listing[i].name : i \in {j \in 1..Len(listing) : listing[j].is_dir /\ ~listing[j].hidden}}

\* A discovery that prunes the entries whose directory has disappeared.
init_state_prune(f, r, listing) ==
    LET manifest == get_manifest(f) IN
    IF ~r.exists
    THEN [exit |-> 1, file |-> f, count |-> 0, missing |-> {}]
    ELSE LET all == scan(listing, manifest.frameworks)
             fw == SelectSeq(all, LAMBDA it : it.name \in found_frameworks(listing))
         IN [exit |-> 0,
             file |-> save_manifest([frameworks |-> fw]),
             count |-> Len(fw),
             missing |-> Keys(all) \ found_frameworks(listing)]

\* A discovery that persists what it loaded before it looks for the root.
init_state_save_first(f, r, listing) ==
    LET manifest == get_manifest(f) IN
    IF ~r.exists
    THEN [exit |-> 1, file |-> save_manifest(manifest), count |-> 0, missing |-> {}]
    ELSE LET fw == scan(listing, manifest.frameworks) IN
         [exit |-> 0,
          file |-> save_manifest([frameworks |-> fw]),
          count |-> Len(fw),
          missing |-> Keys(fw) \ found_frameworks(listing)]

init_state(f, r, listing) ==
    LET manifest == get_manifest(f) IN
    IF ~r.exists
    THEN [exit |-> 1, file |-> f, count |-> 0, missing |-> {}]
    ELSE LET fw == scan(listing, manifest.frameworks) IN
         [exit |-> 0,
          file |-> save_manifest([frameworks |-> fw]),
          count |-> Len(fw),
          missing |-> Keys(fw) \ found_frameworks(listing)]

\* ------------------------------------------------------------ next
\* The slice seq[limit:] in place of seq[:limit].
SliceTo_from(seq, limit) ==
    LET n == Len(seq)
        start == IF limit < 0 THEN (IF n + limit < 0 THEN 0 ELSE n + limit)
                 ELSE (IF limit < n THEN limit ELSE n)
    IN SubSeq(seq, start + 1, n)

\* A slice that ignores the limit.
SliceTo_all(seq, limit) == seq

\* Python's seq[:limit], negative limits included.
SliceTo(seq, limit) ==
    LET n == Len(seq)
        stop == IF limit < 0 THEN (IF n + limit < 0 THEN 0 ELSE n + limit)
                ELSE (IF limit < n THEN limit ELSE n)
    IN SubSeq(seq, 1, stop)

\* The pending names returned in name order, as by sorted(pending).
pending_of_sorted(d) ==
    LET pending == SelectSeq(sorted_items(d), LAMBDA it : it.data.status = "pending")
    IN [k \in 1..Len(pending) |-> pending[k].name]

\* The names whose status is pending, in dict order.
pending_of(d) ==
    LET pending == SelectSeq(d, LAMBDA it : it.data.status = PENDING)
    IN [k \in 1..Len(pending) |-> pending[k].name]

\* A batch selector that also hands out the units left in_progress.
get_next_batch_resume(f, limit) ==
    LET d == get_manifest(f).frameworks
        idx == SelectSeq([i \in 1..Len(d) |-> i],
                         LAMBDA i : d[i].data.status \in {"pending", "in_progress"})
    IN SliceTo([k \in 1..Len(idx) |-> d[idx[k]].name], limit)

get_next_batch(f, limit) ==
    LET manifest == get_manifest(f) IN
    SliceTo(pending_of(manifest.frameworks), limit)

\* ------------------------------------------------------------ mark
\* An assignment that rebuilds the dict from defaults around the unit it marks.
set_status_reset(manifest, framework, status) ==
    [frameworks |->
        [i \in 1..Len(manifest.frameworks) |->
            [manifest.frameworks[i] EXCEPT
                !.data.status = IF manifest.frameworks[i].name = framework
                                THEN status ELSE "pending"]]]

\* manifest["frameworks"][framework]["status"] = status
set_status(manifest, framework, status) ==
    [frameworks |-> DictSet(manifest.frameworks, framework,
                            [Get(manifest.frameworks, framework)
                                EXCEPT !.status = status])]

\* A mutator that enforces the transition table pending -> in_progress ->
\* {completed, failed}, in_progress -> pending.
mark_status_checked(f, framework, status) ==
    LET manifest == get_manifest(f) IN
    IF ~Has(manifest.frameworks, framework)
    THEN [exit |-> 1, file |-> f]
    ELSE IF status \notin StatusValues
    THEN [exit |-> 1, file |-> f]
    ELSE LET data == Get(manifest.frameworks, framework)
             allowed == \/ data.status = "pending" /\ status = "in_progress"
                        \/ data.status = "in_progress" /\ status # "in_progress"
             fw == DictSet(manifest.frameworks, framework,
                           [data EXCEPT !.status = status])
         IN IF allowed
            THEN [exit |-> 0, file |-> save_manifest([frameworks |-> fw])]
            ELSE [exit |-> 1, file |-> f]

mark_status(f, framework, status) ==
    LET manifest == get_manifest(f) IN
    IF ~Has(manifest.frameworks, framework)
    THEN [exit |-> 1, file |-> f]
    ELSE IF status \notin StatusValues
    THEN [exit |-> 1, file |-> f]
    ELSE [exit |-> 0, file |-> save_manifest(set_status(manifest, framework, status))]

\* main(): argparse rejects a status outside choices before mark_status runs
\* (parser.error exits with code 2).
main_mark(f, framework, status) ==
    IF status \notin StatusValues
    THEN [exit |-> 2, file |-> f]
    ELSE mark_status(f, framework, status)

\* ------------------------------------------------------------ status
\* A table printed in dict order.
show_status_unsorted(f) ==
    LET rows == get_manifest(f).frameworks
    IN [i \in 1..Len(rows) |-> <<rows[i].name, rows[i].data.status>>]

\* The printed rows <<name, status>>; no rows when nothing is tracked.
show_status(f) ==
    LET frameworks == get_manifest(f).frameworks
        rows == sorted_items(frameworks)
    IN [i \in 1..Len(rows) |-> <<rows[i].name, rows[i].data.status>>]

\* ------------------------------------------------------------ reset-running
\* A sweep that also resets the failed units.
reset_in_progress_failed(f, o) ==
    LET manifest == get_manifest(f)
        d == manifest.frameworks
        running == {d[i].name : i \in {j \in 1..Len(d) :
                                         d[j].data.status \in {"in_progress", "failed"}}}
        fw == [i \in 1..Len(d) |->
                  IF d[i].name \in running
                  THEN [d[i] EXCEPT !.data.status = "pending"]
                  ELSE d[i]]
    IN [file |-> save_manifest([frameworks |-> fw]),
        outdirs |-> o \ running,
        cleaned |-> o \cap running,
        count |-> Cardinality(running)]

\* A sweep whose cleanup removes the whole frameworks output directory.
reset_in_progress_wipe(f, o) ==
    LET manifest == get_manifest(f)
        d == manifest.frameworks
        running == {d[i].name : i \in {j \in 1..Len(d) : d[j].data.status = "in_progress"}}
        fw == [i \in 1..Len(d) |->
                  IF d[i].data.status = "in_progress"
                  THEN [d[i] EXCEPT !.data.status = "pending"]
                  ELSE d[i]]
    IN [file |-> save_manifest([frameworks |-> fw]),
        outdirs |-> IF running = {} THEN o ELSE {},
        cleaned |-> o \cap running,
        count |-> Cardinality(running)]

reset_in_progress(f, o) ==
    LET manifest == get_manifest(f)
        d == manifest.frameworks
        running == {d[i].name : i \in {j \in 1..Len(d) : d[j].data.status = IN_PROGRESS}}
        fw == [i \in 1..Len(d) |->
                  IF d[i].data.status = IN_PROGRESS
                  THEN [d[i] EXCEPT !.data.status = PENDING]
                  ELSE d[i]]
    IN [file |-> save_manifest([frameworks |-> fw]),
        outdirs |-> o \ running,
        cleaned |-> o \cap running,
        count |-> Cardinality(running)]

\* ------------------------------------------------------------ state
NoRepos == [exists |-> FALSE, entries |-> {}]
BaseRepos == [exists |-> TRUE, entries |-> {HiddenDir, PlainFile}]
\* An unparsable state file: a truncated document.
CorruptFile == FileWith(<<"{", "a">>)

\* Two commands may run at once when the driver does not serialize them.
Procs == {1, 2}
NoProc == [pc |-> "idle", cmd |-> "none", name |-> "", status |-> "", exit |-> 0,
           read |-> NoFile, manifest |-> EmptyManifest, i |-> 0]
\* whole: the complete documents the file has been given; overlap: two
\* commands have run at the same time; owed: the units that were in_progress
\* when a sweep was interrupted.
NoAudit == [whole |-> {}, overlap |-> FALSE, owed |-> {}]

\* The control loop has not been entered.
\* mem: the manifest the driver's mark holds in memory; running: the units
\* whose agent is in flight and agents: each one's position; dispatched: the
\* units spawned in this run; crashes: how often the driver has died;
\* crashed: the state file as it was when it last died.
NoLoop == [pc |-> "off", batch |-> <<>>, i |-> 0, mem |-> EmptyManifest,
           running |-> {}, agents |-> <<>>, dispatched |-> {},
           entry |-> NoFile, crashes |-> 0, crashed |-> NoFile]
\* An agent that has been spawned and is analysing its unit.
NoAgent == [pc |-> "work", status |-> "", manifest |-> EmptyManifest]

\* No command is running: the driver is between two commands.
NoCmd ==
    [cmd |-> "none", name |-> "", status |-> "", limit |-> 0, exit |-> 0,
     batch |-> <<>>, rows |-> <<>>, count |-> 0, missing |-> {}, cleaned |-> {},
     pre |-> NoFile, preOut |-> {}, again |-> FALSE, before |-> <<>>,
     raised |-> FALSE]
\* Command c has just run from the current state.
Ran(c) == [NoCmd EXCEPT !.cmd = c, !.pre = file, !.preOut = outdirs]
Idle == last.cmd = "none"
\* Command c has died of an exception nothing catches: the interpreter prints
\* the traceback and exits with code 1.
Crashed(c) == [Ran(c) EXCEPT !.exit = 1, !.raised = TRUE]

Init ==
    /\ file \in {NoFile, save_manifest(EmptyManifest), CorruptFile}
    /\ repos \in {NoRepos, BaseRepos}
    /\ outdirs = {}
    /\ last = NoCmd
    /\ procs = [p \in Procs |-> NoProc]
    /\ audit = NoAudit
    /\ loop = NoLoop

\* ------------------------------------------------------------ environment
MakeReposDir ==
    /\ Idle
    /\ ~repos.exists
    /\ repos' = BaseRepos
    /\ UNCHANGED <<file, outdirs, last, nonSeq>>

CloneUnit(n) ==
    /\ Idle
    /\ repos.exists
    /\ UnitDir(n) \notin repos.entries
    /\ repos' = [repos EXCEPT !.entries = @ \cup {UnitDir(n)}]
    /\ UNCHANGED <<file, outdirs, last, nonSeq>>

RemoveUnit(n) ==
    /\ Idle
    /\ repos.exists
    /\ UnitDir(n) \in repos.entries
    /\ repos' = [repos EXCEPT !.entries = @ \ {UnitDir(n)}]
    /\ UNCHANGED <<file, outdirs, last, nonSeq>>

\* The source root is removed (or the command is run from another directory).
RemoveReposDir ==
    /\ Idle
    /\ repos.exists
    /\ repos' = NoRepos
    /\ UNCHANGED <<file, outdirs, last, nonSeq>>

\* An analysis agent creates forensics-output/frameworks/<n>.
WriteOutput(n) ==
    /\ Idle
    /\ n \notin outdirs
    /\ outdirs' = outdirs \cup {n}
    /\ UNCHANGED <<file, repos, last, nonSeq>>

\* ------------------------------------------------------------ commands
\* Every listing iterdir() may yield: the non-unit entries, then the unit
\* directories in any order (only directories that are not hidden are read).
Listings(r) ==
    LET units == {e \in r.entries : e.is_dir /\ ~e.hidden}
        others == r.entries \ units
        fixed == CHOOSE o \in Orders(others) : TRUE
    IN {fixed \o o : o \in Orders(units)}

\* init, also run a second time directly after a successful init.
InitCmd ==
    /\ Idle \/ (last.cmd = "init" /\ last.exit = 0)
    /\ \E listing \in Listings(repos) :
        LET r == init_state(file, repos, listing) IN
        /\ file' = IF read_text_raises(file) THEN file ELSE r.file
        /\ last' = IF read_text_raises(file) THEN Crashed("init")
                   ELSE [Ran("init") EXCEPT !.exit = r.exit, !.count = r.count,
                                            !.missing = r.missing,
                                            !.again = (last.cmd = "init")]
        /\ UNCHANGED <<repos, outdirs, nonSeq>>

\* next, also run a second time with the same limit directly after a next.
NextCmd ==
    /\ Idle \/ (last.cmd = "next" /\ ~last.raised)
    /\ \E limit \in -1..MaxLimit :
        /\ last.cmd = "next" => limit = last.limit
        /\ last' = IF read_text_raises(file)
                   THEN [Crashed("next") EXCEPT !.limit = limit]
                   ELSE [Ran("next") EXCEPT !.limit = limit,
                                            !.batch = get_next_batch(file, limit),
                                            !.again = (last.cmd = "next"),
                                            !.before = last.batch]
        /\ UNCHANGED <<file, repos, outdirs, nonSeq>>

MarkCmd ==
    /\ Idle
    /\ \E framework \in Names, status \in StatusValues \cup {InvalidStatus} :
        LET r == main_mark(file, framework, status)
            dies == status \in StatusValues /\ read_text_raises(file)
        IN
        /\ file' = IF dies THEN file ELSE r.file
        /\ last' = IF dies
                   THEN [Crashed("mark") EXCEPT !.name = framework, !.status = status]
                   ELSE [Ran("mark") EXCEPT !.name = framework, !.status = status,
                                            !.exit = r.exit]
        /\ UNCHANGED <<repos, outdirs, nonSeq>>

StatusCmd ==
    /\ Idle
    /\ last' = IF read_text_raises(file) THEN Crashed("status")
               ELSE [Ran("status") EXCEPT !.rows = show_status(file)]
    /\ UNCHANGED <<file, repos, outdirs, nonSeq>>

ResetCmd ==
    /\ Idle
    /\ LET r == reset_in_progress(file, outdirs) IN
        /\ file' = IF read_text_raises(file) THEN file ELSE r.file
        /\ outdirs' = IF read_text_raises(file) THEN outdirs ELSE r.outdirs
        /\ last' = IF read_text_raises(file) THEN Crashed("reset-running")
                   ELSE [Ran("reset-running") EXCEPT !.count = r.count,
                                                     !.cleaned = r.cleaned]
        /\ UNCHANGED <<repos, nonSeq>>

\* The command's process has exited; the driver may issue the next command.
Return ==
    /\ ~Idle
    /\ last' = NoCmd
    /\ UNCHANGED <<file, repos, outdirs, nonSeq>>

Next ==
    \/ MakeReposDir
    \/ RemoveReposDir
    \/ \E n \in Names : CloneUnit(n)
    \/ \E n \in Names : RemoveUnit(n)
    \/ InitCmd
    \/ NextCmd
    \/ MarkCmd
    \/ StatusCmd
    \/ ResetCmd
    \/ Return

Spec == Init /\ [][Next]_vars

\* ------------------------------------------------------------ sweep
\* The commands after discovery, with agents leaving output directories:
\* the state file is missing, unparsable, or tracks every unit of the source
\* root as pending, in the order init found them.
SweepInit ==
    /\ file \in {NoFile, CorruptFile} \cup
                {save_manifest([frameworks |->
                    [k \in 1..MaxUnits |->
                        [name |-> o[k],
                         data |-> [status |-> PENDING, path |-> ItemPath(o[k])]]]]) :
                 o \in Orders(Names)}
    /\ repos = [BaseRepos EXCEPT !.entries = @ \cup {UnitDir(n) : n \in Names}]
    /\ outdirs = {}
    /\ last = NoCmd
    /\ procs = [p \in Procs |-> NoProc]
    /\ audit = NoAudit
    /\ loop = NoLoop

SweepNext ==
    \/ \E n \in Names : WriteOutput(n)
    \/ NextCmd
    \/ StatusCmd
    \/ MarkCmd
    \/ ResetCmd
    \/ Return

SweepSpec == SweepInit /\ [][SweepNext]_vars


\* ------------------------------------------------------------ sweep, step by step
\* reset-running one statement at a time, so that it can be interrupted:
\* load; for each unit in dict order, if it is in_progress, assign pending in
\* memory, remove its output directory if there is one, count it; then save.

\* The assignment, with a save_manifest inside the loop.
reset_assign_saved(f, manifest, i) ==
    LET m == [frameworks |-> [manifest.frameworks EXCEPT ![i].data.status = "pending"]]
    IN [file |-> save_manifest(m), manifest |-> m]

\* data["status"] = Status.PENDING: the loaded manifest changes, the file does not.
reset_assign(f, manifest, i) ==
    [file |-> f,
     manifest |-> [frameworks |-> [manifest.frameworks EXCEPT ![i].data.status = PENDING]]]

Sweeping == last.cmd = "reset-running"
SweepAt(pc) == Sweeping /\ procs[1].pc = pc
\* The unit the for loop is at.
SweepUnit == procs[1].manifest.frameworks[procs[1].i]

\* manifest = get_manifest(); count = 0; also the restart after an interruption.
SweepLoad ==
    /\ Idle \/ SweepAt("killed")
    /\ last' = [Ran("reset-running") EXCEPT !.again = Sweeping]
    /\ procs' = [procs EXCEPT ![1] = [NoProc EXCEPT !.pc = "scan", !.cmd = "reset-running",
                                                     !.read = file,
                                                     !.manifest = get_manifest(file),
                                                     !.i = 1]]
    /\ UNCHANGED <<file, repos, outdirs, audit, loop>>

\* A unit that is not in_progress is passed over.
SweepSkip ==
    /\ SweepAt("scan")
    /\ procs[1].i <= Len(procs[1].manifest.frameworks)
    /\ SweepUnit.data.status # IN_PROGRESS
    /\ procs' = [procs EXCEPT ![1].i = @ + 1]
    /\ UNCHANGED <<file, repos, outdirs, last, audit, loop>>

SweepAssign ==
    /\ SweepAt("scan")
    /\ procs[1].i <= Len(procs[1].manifest.frameworks)
    /\ SweepUnit.data.status = IN_PROGRESS
    /\ LET r == reset_assign(file, procs[1].manifest, procs[1].i) IN
          /\ file' = r.file
          /\ procs' = [procs EXCEPT ![1].manifest = r.manifest, ![1].pc = "clean"]
    /\ UNCHANGED <<repos, outdirs, last, audit, loop>>

\* if fw_dir.exists(): shutil.rmtree(fw_dir); then count += 1.
SweepClean ==
    /\ SweepAt("clean")
    /\ outdirs' = outdirs \ {SweepUnit.name}
    /\ last' = [last EXCEPT !.count = @ + 1,
                            !.cleaned = @ \cup ({SweepUnit.name} \cap outdirs)]
    /\ procs' = [procs EXCEPT ![1].pc = "scan", ![1].i = @ + 1]
    /\ UNCHANGED <<file, repos, audit, loop>>

\* save_manifest(manifest) after the loop.
SweepSave ==
    /\ SweepAt("scan")
    /\ procs[1].i > Len(procs[1].manifest.frameworks)
    /\ file' = save_manifest(procs[1].manifest)
    /\ procs' = [procs EXCEPT ![1].pc = "done"]
    /\ UNCHANGED <<repos, outdirs, last, audit, loop>>

\* The process is killed before it has reached save_manifest.
SweepKill ==
    /\ SweepAt("scan") \/ SweepAt("clean")
    /\ procs' = [procs EXCEPT ![1].pc = "killed"]
    /\ audit' = [audit EXCEPT !.owed =
                    LET d == get_manifest(last.pre).frameworks IN
                    {d[k].name : k \in {j \in 1..Len(d) : d[j].data.status = IN_PROGRESS}}]
    /\ UNCHANGED <<file, repos, outdirs, last, loop>>

\* The command has exited.
SweepReturn ==
    /\ SweepAt("done")
    /\ last' = NoCmd
    /\ procs' = [procs EXCEPT ![1] = NoProc]
    /\ audit' = NoAudit
    /\ UNCHANGED <<file, repos, outdirs, loop>>

StepSweepNext ==
    \/ \E n \in Names : WriteOutput(n)
    \/ MarkCmd
    \/ (last.cmd = "mark" /\ Return)
    \/ SweepLoad
    \/ SweepSkip
    \/ SweepAssign
    \/ SweepClean
    \/ SweepSave
    \/ SweepKill
    \/ SweepReturn

StepSweepSpec == SweepInit /\ [][StepSweepNext]_vars

\* ------------------------------------------------------------ damaged file
\* The commands on a state file that may have been damaged between two
\* commands: a write cut short, or content that is not UTF-8 text.
DamageInit ==
    /\ file \in {NoFile, save_manifest([frameworks |->
                [k \in 1..MaxUnits |->
                    [name |-> NamePool[k],
                     data |-> [status |-> PENDING, path |-> PathPool[k]]]]])}
    /\ repos = [BaseRepos EXCEPT !.entries = @ \cup {UnitDir(n) : n \in Names}]
    /\ outdirs = {}
    /\ last = NoCmd
    /\ procs = [p \in Procs |-> NoProc]
    /\ audit = NoAudit
    /\ loop = NoLoop

\* An interrupted write_text leaves only the first k tokens of the document.
Truncate(k) ==
    /\ Idle
    /\ file.exists
    /\ ~read_text_raises(file)
    /\ k < Len(file.text)
    /\ file' = FileWith(SubSeq(file.text, 1, k))
    /\ UNCHANGED <<repos, outdirs, last, nonSeq>>

\* The file's content is replaced by bytes that do not decode as UTF-8.
Clobber ==
    /\ Idle
    /\ file.exists
    /\ ~read_text_raises(file)
    /\ file' = FileWith(<<BadByte>>)
    /\ UNCHANGED <<repos, outdirs, last, nonSeq>>

DamageNext ==
    \/ \E k \in 0..(3 * MaxUnits + 1) : Truncate(k)
    \/ Clobber
    \/ InitCmd
    \/ NextCmd
    \/ MarkCmd
    \/ StatusCmd
    \/ Return

DamageSpec == DamageInit /\ [][DamageNext]_vars


\* ------------------------------------------------------------ store
\* One caller persists a manifest it holds in memory and a later command
\* loads the file: the manifests are the dicts over the unit names, in any
\* insertion order, with any status and any recorded path.
ManifestsOver(S) ==
    UNION {{[i \in 1..Cardinality(T) |-> [name |-> o[i], data |-> dt[i]]] :
               o \in Orders(T),
               dt \in [1..Cardinality(T) ->
                          [status : StatusValues, path : {ItemPath(m) : m \in S}]]} :
           T \in SUBSET S}

StoreInit ==
    /\ file = NoFile
    /\ repos = BaseRepos
    /\ outdirs = {}
    /\ last = NoCmd
    /\ procs = [p \in Procs |-> NoProc]
    /\ audit = NoAudit
    /\ loop = NoLoop

\* The caller holds a manifest in memory.
StoreBuild ==
    /\ procs[1].pc = "idle"
    /\ \E d \in ManifestsOver(Names) :
          procs' = [procs EXCEPT ![1] = [@ EXCEPT !.pc = "save",
                                                  !.manifest = [frameworks |-> d]]]
    /\ UNCHANGED <<file, repos, outdirs, last, audit, loop>>

\* save_manifest(manifest), run to its end.
StoreSave ==
    /\ procs[1].pc = "save"
    /\ file' = save_manifest(procs[1].manifest)
    /\ procs' = [procs EXCEPT ![1] = [@ EXCEPT !.pc = "done"]]
    /\ UNCHANGED <<repos, outdirs, last, audit, loop>>

\* The next command's get_manifest().
StoreLoad ==
    /\ procs[1].pc = "done"
    /\ procs[2].pc = "idle"
    /\ procs' = [procs EXCEPT ![2] = [@ EXCEPT !.pc = "done", !.read = file,
                                                !.manifest = get_manifest(file)]]
    /\ UNCHANGED <<file, repos, outdirs, last, audit, loop>>

StoreNext == StoreBuild \/ StoreSave \/ StoreLoad

StoreSpec == StoreInit /\ [][StoreNext]_vars

\* ============================================================ concurrency
\* Two commands against the same state file, interleaved at the file
\* operations of get_manifest (one read) and save_manifest (write_text opens
\* the file for writing, which truncates it, and then writes the document).

\* The manifest after init on a source root holding every unit, all pending.
RECURSIVE fresh_units(_)
fresh_units(k) ==
    IF k = 0 THEN <<>>
    ELSE Append(fresh_units(k - 1),
                [name |-> NamePool[k],
                 data |-> [status |-> PENDING, path |-> PathPool[k]]])
FreshFile == save_manifest([frameworks |-> fresh_units(MaxUnits)])

ConcInit ==
    /\ file = FreshFile
    /\ repos = BaseRepos
    /\ outdirs = {}
    /\ last = NoCmd
    /\ procs = [p \in Procs |-> NoProc]
    /\ audit = [NoAudit EXCEPT !.whole = {FreshFile}]
    /\ loop = NoLoop

Running(p) == procs[p].pc \notin {"idle", "done"}

\* A mark command starts.
StartMark(p) ==
    /\ procs[p].pc = "idle"
    /\ \E framework \in Names, status \in StatusValues :
          procs' = [procs EXCEPT ![p] = [@ EXCEPT !.pc = "load", !.cmd = "mark",
                                                  !.name = framework, !.status = status]]
    /\ audit' = [audit EXCEPT !.overlap = @ \/ \E q \in Procs \ {p} : Running(q)]
    /\ UNCHANGED <<file, repos, outdirs, last, loop>>

\* A status command starts.
StartStatus(p) ==
    /\ procs[p].pc = "idle"
    /\ procs' = [procs EXCEPT ![p] = [@ EXCEPT !.pc = "load", !.cmd = "status"]]
    /\ audit' = [audit EXCEPT !.overlap = @ \/ \E q \in Procs \ {p} : Running(q)]
    /\ UNCHANGED <<file, repos, outdirs, last, loop>>

\* get_manifest() reads the file as it is now; mark then validates and
\* assigns the status in memory, status prints and exits.
Load(p) ==
    /\ procs[p].pc = "load"
    /\ LET manifest == get_manifest(file)
           me == [procs[p] EXCEPT !.read = file]
       IN procs' = [procs EXCEPT ![p] =
            IF me.cmd = "status"
            THEN [me EXCEPT !.pc = "done", !.manifest = manifest]
            ELSE IF ~Has(manifest.frameworks, me.name) \/ me.status \notin StatusValues
            THEN [me EXCEPT !.pc = "done", !.exit = 1, !.manifest = manifest]
            ELSE [me EXCEPT !.pc = "save",
                            !.manifest = set_status(manifest, me.name, me.status)]]
    /\ UNCHANGED <<file, repos, outdirs, last, audit, loop>>

\* write_text opens the file with mode "w": it is created or truncated.
SaveOpen(p) ==
    /\ procs[p].pc = "save"
    /\ file' = FileWith(<<>>)
    /\ procs' = [procs EXCEPT ![p] = [@ EXCEPT !.pc = "write"]]
    /\ audit' = [audit EXCEPT !.whole = @ \cup {save_manifest(procs[p].manifest)}]
    /\ UNCHANGED <<repos, outdirs, last, loop>>

\* len(s) of the strings that occur in a document.
StrLen(s) ==
    CASE s = "pending" -> 7
      [] s = "in_progress" -> 11
      [] s = "completed" -> 9
      [] s = "failed" -> 6
      [] s \in {PathPool[k] : k \in 1..Len(PathPool)} -> 7
      [] OTHER -> 1
\* The bytes token i of a text stands for in the file json.dumps(indent=2)
\* writes: the opening of the document, a unit's key (with the comma after
\* the unit before it), its status, its path and closing brace, the end of
\* the document, or one left-over byte.
TokenBytes(text, i) ==
    CASE text[i] = "{" -> 19
      [] text[i] = "}" -> (IF i = 2 THEN 3 ELSE 6)
      [] text[i] = Residue -> 1
      [] i % 3 = 2 -> 6 + StrLen(text[i]) + (IF i > 2 THEN 1 ELSE 0)
      [] i % 3 = 0 -> 22 + StrLen(text[i])
      [] OTHER -> 18 + StrLen(text[i]) + 7
RECURSIVE ByteSum(_, _)
ByteSum(text, n) == IF n = 0 THEN 0 ELSE ByteSum(text, n - 1) + TokenBytes(text, n)
ByteLen(text) == ByteSum(text, Len(text))

\* The document written at offset 0 over what the file holds by now: when the
\* file is longer in bytes, its last bytes stay behind the document.
Overlay(old, new) ==
    IF ByteLen(old) > ByteLen(new)
    THEN new \o [k \in 1..(ByteLen(old) - ByteLen(new)) |-> Residue]
    ELSE new

\* The document is written and the file closed; mark reports success.
SaveWrite(p) ==
    /\ procs[p].pc = "write"
    /\ file' = FileWith(Overlay(file.text, dumps(procs[p].manifest)))
    /\ procs' = [procs EXCEPT ![p] = [@ EXCEPT !.pc = "done", !.exit = 0]]
    /\ UNCHANGED <<repos, outdirs, last, audit, loop>>

ConcNext ==
    \E p \in Procs :
        \/ StartMark(p)
        \/ StartStatus(p)
        \/ Load(p)
        \/ SaveOpen(p)
        \/ SaveWrite(p)

ConcSpec == ConcInit /\ [][ConcNext]_vars


\* ============================================================ control loop
\* Step 2 of the orchestrator prompt, run by one driver, one command at a
\* time: next --limit 2; stop when the output is empty; mark each unit of the
\* batch in_progress and spawn its agent; wait for the agents; mark each unit
\* completed; fetch the next batch.
BatchLimit == 2

\* The manifests the loop may start from: the first k units of the pool, each
\* with any status.
RECURSIVE units_with(_, _)
units_with(k, st) ==
    IF k = 0 THEN <<>>
    ELSE Append(units_with(k - 1, st),
                [name |-> NamePool[k],
                 data |-> [status |-> st[k], path |-> PathPool[k]]])
LoopFiles ==
    {save_manifest([frameworks |-> units_with(k, st)]) :
        k \in 0..MaxLoopUnits, st \in [1..MaxLoopUnits -> StatusValues]}

LoopInit ==
    /\ file = NoFile
    /\ repos = BaseRepos
    /\ outdirs = {}
    /\ last = NoCmd
    /\ procs = [p \in Procs |-> NoProc]
    /\ audit = NoAudit
    /\ loop = NoLoop

\* The driver reaches Step 2 with the state file as earlier commands left it.
LoopEnter ==
    /\ loop.pc = "off"
    /\ \E f \in LoopFiles :
          /\ file' = f
          /\ loop' = [loop EXCEPT !.pc = "next", !.entry = f]
    /\ UNCHANGED <<repos, outdirs, last, procs, audit>>

\* Sub-step 1: check for work.
LoopNext ==
    /\ loop.pc = "next"
    /\ LET batch == get_next_batch(file, BatchLimit) IN
          loop' = IF batch = <<>>
                  THEN [loop EXCEPT !.pc = "done", !.batch = <<>>, !.i = 0]
                  ELSE [loop EXCEPT !.pc = "dispatch", !.batch = batch, !.i = 1]
    /\ UNCHANGED <<file, repos, outdirs, last, procs, audit>>

\* Sub-step 2 for the next unit of the batch: mark it in_progress, then spawn
\* its agent whatever the mark's exit code was. The mark is a process of its
\* own, and the agents spawned before run beside it.
Spawned ==
    LET framework == loop.batch[loop.i] IN
    [loop EXCEPT !.running = @ \cup {framework},
                 !.agents = [n \in loop.running \cup {framework} |->
                                IF n = framework THEN NoAgent ELSE loop.agents[n]],
                 !.dispatched = @ \cup {framework},
                 !.mem = EmptyManifest,
                 !.i = IF loop.i = Len(loop.batch) THEN 0 ELSE @ + 1,
                 !.pc = IF loop.i = Len(loop.batch) THEN "wait" ELSE "dispatch"]

\* mark_status up to the assignment: load, look the unit up, assign.
DispatchLoad ==
    /\ loop.pc = "dispatch"
    /\ LET framework == loop.batch[loop.i]
           manifest == get_manifest(file)
       IN loop' = IF ~Has(manifest.frameworks, framework)
                  THEN Spawned
                  ELSE [loop EXCEPT !.pc = "dispatch_save",
                                    !.mem = set_status(manifest, framework, IN_PROGRESS)]
    /\ UNCHANGED <<file, repos, outdirs, last, procs, audit>>

\* save_manifest: write_text opens the file, which truncates it.
DispatchOpen ==
    /\ loop.pc = "dispatch_save"
    /\ file' = FileWith(<<>>)
    /\ loop' = [loop EXCEPT !.pc = "dispatch_write"]
    /\ UNCHANGED <<repos, outdirs, last, procs, audit>>

\* The document is written; the agent is spawned.
DispatchWrite ==
    /\ loop.pc = "dispatch_write"
    /\ file' = FileWith(Overlay(file.text, dumps(loop.mem)))
    /\ loop' = Spawned
    /\ UNCHANGED <<repos, outdirs, last, procs, audit>>

LoopDispatch == DispatchLoad \/ DispatchOpen \/ DispatchWrite

\* The agent of unit n moves to position pc.
AgentAt(n, pc) == n \in loop.running /\ loop.agents[n].pc = pc
Gone(n) ==
    [loop EXCEPT !.running = @ \ {n},
                 !.agents = [m \in loop.running \ {n} |-> loop.agents[m]]]

\* The agent has analysed its unit and left its report directory; it goes on
\* to update the state file.
AgentFinish(n) ==
    /\ AgentAt(n, "work")
    /\ loop' = [loop EXCEPT !.agents[n].pc = "load", !.agents[n].status = COMPLETED]
    /\ outdirs' = outdirs \cup {n}
    /\ UNCHANGED <<file, repos, last, procs, audit>>

\* The agent has given up without a report directory; it goes on to update
\* the state file.
AgentFail(n) ==
    /\ AgentAt(n, "work")
    /\ loop' = [loop EXCEPT !.agents[n].pc = "load", !.agents[n].status = FAILED]
    /\ UNCHANGED <<file, repos, outdirs, last, procs, audit>>

\* The agent ends without a report directory and without an update.
AgentQuit(n) ==
    /\ AgentAt(n, "work")
    /\ loop' = Gone(n)
    /\ UNCHANGED <<file, repos, outdirs, last, procs, audit>>

\* The agent's update is a mark of its own unit: mark_status up to the
\* assignment (it exits 1 when the manifest it loads does not hold the unit).
AgentLoad(n) ==
    /\ AgentAt(n, "load")
    /\ LET manifest == get_manifest(file) IN
          loop' = IF ~Has(manifest.frameworks, n)
                  THEN Gone(n)
                  ELSE [loop EXCEPT !.agents[n].pc = "save",
                                    !.agents[n].manifest =
                                        set_status(manifest, n, loop.agents[n].status)]
    /\ UNCHANGED <<file, repos, outdirs, last, procs, audit>>

AgentOpen(n) ==
    /\ AgentAt(n, "save")
    /\ file' = FileWith(<<>>)
    /\ loop' = [loop EXCEPT !.agents[n].pc = "write"]
    /\ UNCHANGED <<repos, outdirs, last, procs, audit>>

AgentWrite(n) ==
    /\ AgentAt(n, "write")
    /\ file' = FileWith(Overlay(file.text, dumps(loop.agents[n].manifest)))
    /\ loop' = Gone(n)
    /\ UNCHANGED <<repos, outdirs, last, procs, audit>>

AgentStep(n) ==
    \/ AgentFinish(n)
    \/ AgentFail(n)
    \/ AgentQuit(n)
    \/ AgentLoad(n)
    \/ AgentOpen(n)
    \/ AgentWrite(n)

\* Sub-step 3: all spawned agents are done.
LoopWait ==
    /\ loop.pc = "wait"
    /\ loop.running = {}
    /\ loop' = [loop EXCEPT !.pc = "collect", !.i = 1]
    /\ UNCHANGED <<file, repos, outdirs, last, procs, audit>>

\* Sub-step 3: mark the next unit of the batch completed, then fetch again.
LoopCollect ==
    /\ loop.pc = "collect"
    /\ LET framework == loop.batch[loop.i]
           r == main_mark(file, framework, COMPLETED)
       IN /\ file' = r.file
          /\ loop' = [loop EXCEPT !.i = IF loop.i = Len(loop.batch) THEN 0 ELSE @ + 1,
                                  !.pc = IF loop.i = Len(loop.batch) THEN "next" ELSE @]
    /\ UNCHANGED <<repos, outdirs, last, procs, audit>>

DriverStep == LoopEnter \/ LoopNext \/ LoopDispatch \/ LoopWait \/ LoopCollect

LoopStep ==
    \/ LoopEnter
    \/ LoopNext
    \/ LoopDispatch
    \/ \E n \in loop.running : AgentStep(n)
    \/ LoopWait
    \/ LoopCollect

\* The driver keeps issuing its next command and every spawned agent ends.
LoopSpec ==
    /\ LoopInit
    /\ [][LoopStep]_vars
    /\ WF_vars(DriverStep)
    /\ WF_vars(\E n \in loop.running : AgentStep(n))

\* ============================================================ crash and restart
\* The whole prompt: Step 1 (init && reset-running), then the loop of Step 2.
\* The driver may die at any point of the loop, its agents with it, and is
\* then started again from Step 1.
MaxCrashes == 1

\* The source root holds the units the state file may track.
LoopRepos ==
    [exists |-> TRUE, entries |-> {UnitDir(NamePool[k]) : k \in 1..MaxLoopUnits}]

RunInit ==
    /\ file = NoFile
    /\ repos = LoopRepos
    /\ outdirs = {}
    /\ last = NoCmd
    /\ procs = [p \in Procs |-> NoProc]
    /\ audit = NoAudit
    /\ loop = NoLoop

\* The driver is started with the state file as earlier sessions left it.
RunStart ==
    /\ loop.pc = "off"
    /\ \E f \in LoopFiles \cup {NoFile} :
          /\ file' = f
          /\ loop' = [loop EXCEPT !.pc = "init"]
    /\ UNCHANGED <<repos, outdirs, last, procs, audit>>

\* Step 1, first command: init (reset-running runs only if it exits 0).
RunDiscover ==
    /\ loop.pc = "init"
    /\ \E listing \in Listings(repos) :
        LET r == init_state(file, repos, listing) IN
        /\ file' = r.file
        /\ loop' = [loop EXCEPT !.pc = IF r.exit = 0 THEN "reset" ELSE "next"]
    /\ UNCHANGED <<repos, outdirs, last, procs, audit>>

\* Step 1, second command: reset-running; the loop is entered.
RunRecover ==
    /\ loop.pc = "reset"
    /\ LET r == reset_in_progress(file, outdirs) IN
          /\ file' = r.file
          /\ outdirs' = r.outdirs
          /\ loop' = [loop EXCEPT !.pc = "next", !.batch = <<>>, !.i = 0,
                                  !.entry = r.file]
    /\ UNCHANGED <<repos, last, procs, audit>>

InLoop ==
    loop.pc \in {"next", "dispatch", "dispatch_save", "dispatch_write", "wait", "collect"}
Restarted == [loop EXCEPT !.pc = "init", !.batch = <<>>, !.i = 0, !.running = {},
                          !.mem = EmptyManifest, !.agents = <<>>, !.dispatched = {},
                          !.crashes = @ + 1, !.crashed = file]

\* The driver dies, and with it its agents and the mark it may have issued;
\* a mark that had opened the file leaves it truncated.
Crash ==
    /\ InLoop
    /\ loop.crashes < MaxCrashes
    /\ loop' = Restarted
    /\ UNCHANGED <<file, repos, outdirs, last, procs, audit>>

\* The driver dies while its mark of sub-step 3 is inside save_manifest:
\* write_text has opened (truncated) the file and has written nothing yet.
CrashInSave ==
    /\ loop.pc = "collect"
    /\ loop.crashes < MaxCrashes
    /\ main_mark(file, loop.batch[loop.i], COMPLETED).exit = 0
    /\ file' = FileWith(<<>>)
    /\ loop' = Restarted
    /\ UNCHANGED <<repos, outdirs, last, procs, audit>>

RunDriver ==
    RunStart \/ RunDiscover \/ RunRecover
        \/ LoopNext \/ LoopDispatch \/ LoopWait \/ LoopCollect

RunStep ==
    \/ RunStart
    \/ RunDiscover
    \/ RunRecover
    \/ LoopNext
    \/ LoopDispatch
    \/ \E n \in loop.running : AgentStep(n)
    \/ LoopWait
    \/ LoopCollect

\* A run without crashes.
RunSpec ==
    /\ RunInit
    /\ [][RunStep]_vars
    /\ WF_vars(RunDriver)
    /\ WF_vars(\E n \in loop.running : AgentStep(n))

\* A run with at most MaxCrashes crashes; the restarted driver keeps going.
RecoverSpec ==
    /\ RunInit
    /\ [][RunStep \/ Crash \/ CrashInSave]_vars
    /\ WF_vars(RunDriver)
    /\ WF_vars(\E n \in loop.running : AgentStep(n))

\* ============================================================ scenario
\* One driver runs a fixed script of commands, one at a time, from a fresh
\* state (no state file, no output directory) on a source root that holds
\* exactly the unit directories a, b and c; agents may leave output
\* directories at any time.
ScenarioNames == {"a", "b", "c"}
Script ==
    <<[cmd |-> "init", name |-> "", status |-> "", limit |-> 0],
      [cmd |-> "mark", name |-> "a", status |-> IN_PROGRESS, limit |-> 0],
      [cmd |-> "next", name |-> "", status |-> "", limit |-> 2],
      [cmd |-> "mark", name |-> "b", status |-> COMPLETED, limit |-> 0],
      [cmd |-> "mark", name |-> "c", status |-> FAILED, limit |-> 0],
      [cmd |-> "reset-running", name |-> "", status |-> "", limit |-> 0],
      [cmd |-> "status", name |-> "", status |-> "", limit |-> 0]>>

ScriptStart ==
    /\ file = NoFile
    /\ repos = [exists |-> TRUE, entries |-> {UnitDir(n) : n \in ScenarioNames}]
    /\ outdirs = {}
    /\ last = NoCmd
    /\ procs = [p \in Procs |-> NoProc]
    /\ audit = NoAudit
    /\ loop = [NoLoop EXCEPT !.pc = "script"]

\* The script's next command, when it is a c.
Due(c) ==
    /\ loop.pc = "script"
    /\ loop.i < Len(Script)
    /\ Script[loop.i + 1].cmd = c
Advance == loop' = [loop EXCEPT !.i = @ + 1]

ScriptInit ==
    /\ Due("init")
    /\ \E listing \in Listings(repos) :
        LET r == init_state(file, repos, listing) IN
        /\ file' = r.file
        /\ last' = [Ran("init") EXCEPT !.exit = r.exit, !.count = r.count,
                                       !.missing = r.missing]
    /\ Advance
    /\ UNCHANGED <<repos, outdirs, procs, audit>>

ScriptMark ==
    /\ Due("mark")
    /\ LET c == Script[loop.i + 1]
           r == main_mark(file, c.name, c.status)
       IN /\ file' = r.file
          /\ last' = [Ran("mark") EXCEPT !.name = c.name, !.status = c.status,
                                         !.exit = r.exit]
    /\ Advance
    /\ UNCHANGED <<repos, outdirs, procs, audit>>

ScriptNext ==
    /\ Due("next")
    /\ LET c == Script[loop.i + 1] IN
          last' = [Ran("next") EXCEPT !.limit = c.limit,
                                      !.batch = get_next_batch(file, c.limit)]
    /\ Advance
    /\ UNCHANGED <<file, repos, outdirs, procs, audit>>

ScriptReset ==
    /\ Due("reset-running")
    /\ LET r == reset_in_progress(file, outdirs) IN
          /\ file' = r.file
          /\ outdirs' = r.outdirs
          /\ last' = [Ran("reset-running") EXCEPT !.count = r.count,
                                                  !.cleaned = r.cleaned]
    /\ Advance
    /\ UNCHANGED <<repos, procs, audit>>

ScriptStatus ==
    /\ Due("status")
    /\ last' = [Ran("status") EXCEPT !.rows = show_status(file)]
    /\ Advance
    /\ UNCHANGED <<file, repos, outdirs, procs, audit>>

\* An agent creates forensics-output/frameworks/<n> between two commands.
ScriptOutput(n) ==
    /\ loop.pc = "script"
    /\ n \notin outdirs
    /\ outdirs' = outdirs \cup {n}
    /\ UNCHANGED <<file, repos, last, procs, audit, loop>>

ScriptStep ==
    \/ ScriptInit
    \/ ScriptMark
    \/ ScriptNext
    \/ ScriptReset
    \/ ScriptStatus
    \/ \E n \in ScenarioNames : ScriptOutput(n)

ScenarioSpec == ScriptStart /\ [][ScriptStep]_vars

\* ================================================================ claims
\* The units of the persisted manifest before and after the last command.
PreUnits == get_manifest(last.pre).frameworks
PostUnits == get_manifest(file).frameworks
FourStatuses == {"pending", "in_progress", "completed", "failed"}
Count(d, st) == Cardinality({i \in 1..Len(d) : d[i].data.status = st})

\* C1: reset-running turns exactly the units that were in_progress into
\* pending, keeps every other status, every path and the tracked names, and
\* leaves no unit in_progress; with no unit in_progress the manifest contents
\* are unchanged and zero resets are reported.
C1_ResetScope ==
    last.cmd = "reset-running" =>
        /\ KeySeq(PostUnits) = KeySeq(PreUnits)
        /\ \A i \in 1..Len(PreUnits) :
              /\ PostUnits[i].data.path = PreUnits[i].data.path
              /\ PreUnits[i].data.status = "in_progress"
                    => PostUnits[i].data.status = "pending"
              /\ PreUnits[i].data.status # "in_progress"
                    => PostUnits[i].data.status = PreUnits[i].data.status
        /\ Count(PostUnits, "in_progress") = 0
        /\ last.count = Count(PreUnits, "in_progress")
        /\ Count(PreUnits, "in_progress") = 0 => PostUnits = PreUnits
        /\ last.exit = 0
C1_Witness ==
    /\ last.cmd = "reset-running"
    /\ last.count >= 1
    /\ \E i \in 1..Len(PreUnits) : PreUnits[i].data.status \in {"completed", "failed"}

\* C2: for a limit L >= 0, next returns at most L names, each a tracked unit
\* whose status is pending at call time, without repetition.
C2_BatchBound ==
    (last.cmd = "next" /\ last.limit >= 0) =>
        /\ Len(last.batch) <= last.limit
        /\ \A k \in 1..Len(last.batch) :
              /\ Has(PreUnits, last.batch[k])
              /\ Get(PreUnits, last.batch[k]).status = "pending"
        /\ \A k, l \in 1..Len(last.batch) : k # l => last.batch[k] # last.batch[l]
C2_Witness ==
    /\ last.cmd = "next"
    /\ last.limit = 1
    /\ Len(last.batch) = 1
    /\ Count(PreUnits, "in_progress") >= 1

\* C3: mark with an untracked name, or with a status outside the four
\* recognized values, exits with code 1 and leaves the state file unchanged.
C3_MarkInvalidExitsOne ==
    (last.cmd = "mark" /\ (~Has(PreUnits, last.name) \/ last.status \notin FourStatuses)) =>
        /\ last.exit = 1
        /\ file = last.pre

\* C5: every status in the persisted manifest is one of the four values, and
\* a mark with any other value is refused without touching the file.
C5_StatusDomain ==
    /\ \A i \in 1..Len(PostUnits) : PostUnits[i].data.status \in FourStatuses
    /\ (last.cmd = "mark" /\ last.status \notin FourStatuses) =>
          (last.exit # 0 /\ file = last.pre)
C5_Witness ==
    /\ last.cmd = "mark"
    /\ last.status \notin FourStatuses
    /\ Has(PreUnits, last.name)
    /\ Len(PostUnits) >= 2

\* C6: an init run directly after a successful init, on the same source
\* root, succeeds and leaves the state file exactly as the first run left it.
C6_InitIdempotent ==
    (last.cmd = "init" /\ last.again) =>
        /\ last.exit = 0
        /\ file = last.pre
        /\ \A i, j \in 1..Len(PostUnits) : i # j => PostUnits[i].name # PostUnits[j].name
C6_Witness ==
    /\ last.cmd = "init"
    /\ last.again
    /\ Len(PreUnits) >= 2
    /\ \E i \in 1..Len(PreUnits) : PreUnits[i].data.status # "pending"

\* C7: a successful init keeps every existing entry (name, status, path and
\* position) and appends, as pending, exactly the non-hidden subdirectories
\* of the root that were not tracked.
UnitDirs == {e.name : e \in {x \in repos.entries : x.is_dir /\ ~x.hidden}}
C7_InitPreserves ==
    (last.cmd = "init" /\ last.exit = 0) =>
        /\ Len(PostUnits) >= Len(PreUnits)
        /\ SubSeq(PostUnits, 1, Len(PreUnits)) = PreUnits
        /\ Keys(PostUnits) = Keys(PreUnits) \cup UnitDirs
        /\ \A i \in (Len(PreUnits) + 1)..Len(PostUnits) :
              /\ PostUnits[i].data.status = "pending"
              /\ PostUnits[i].data.path = ItemPath(PostUnits[i].name)
        /\ last.count = Len(PostUnits)
        /\ last.missing = Keys(PreUnits) \ UnitDirs
C7_Witness ==
    /\ last.cmd = "init"
    /\ last.exit = 0
    /\ Len(PostUnits) > Len(PreUnits)
    /\ \E i \in 1..Len(PreUnits) :
          /\ PreUnits[i].name \notin UnitDirs
          /\ PreUnits[i].data.status # "pending"

\* C9: mark with a tracked name and a recognized status succeeds whatever the
\* unit's current status; afterwards that unit has the target status and the
\* other statuses, every path and the tracked names (in order) are unchanged.
C9_MarkOverwrites ==
    (last.cmd = "mark" /\ Has(PreUnits, last.name) /\ last.status \in FourStatuses) =>
        /\ last.exit = 0
        /\ KeySeq(PostUnits) = KeySeq(PreUnits)
        /\ \A i \in 1..Len(PreUnits) :
              /\ PostUnits[i].data.path = PreUnits[i].data.path
              /\ PostUnits[i].data.status =
                    IF PreUnits[i].name = last.name THEN last.status
                    ELSE PreUnits[i].data.status
C9_Witness ==
    /\ last.cmd = "mark"
    /\ last.exit = 0
    /\ Len(PreUnits) >= 2
    /\ Get(PreUnits, last.name).status = "completed"
    /\ last.status = "pending"

\* C4: a command that loads the state file while another command saves it
\* reads either the complete old document or the complete new one.
C4_LoadSeesWholeDocument ==
    \A p \in Procs :
        procs[p].pc \in {"save", "write", "done"} => procs[p].read \in audit.whole

\* C10: when the two commands do not overlap, two successful marks of
\* different units are both in the persisted manifest once both have exited;
\* the witness is the overlapping run in which both exit 0 and one is lost.
BothMarked ==
    /\ \A p \in Procs : procs[p].pc = "done" /\ procs[p].cmd = "mark" /\ procs[p].exit = 0
    /\ procs[1].name # procs[2].name
Reflected(p) ==
    /\ Has(PostUnits, procs[p].name)
    /\ Get(PostUnits, procs[p].name).status = procs[p].status
C10_SequentialMarksKept ==
    (BothMarked /\ ~audit.overlap) => \A p \in Procs : Reflected(p)
C10_Witness ==
    /\ BothMarked
    /\ audit.overlap
    /\ Reflected(1)
    /\ ~Reflected(2)
    /\ procs[2].status = "completed"

\* C8 as stated: when the loop stops, no tracked unit is pending or
\* in_progress.
C8_StopsWithNothingOpen ==
    loop.pc = "done" =>
        (Count(PostUnits, "pending") = 0 /\ Count(PostUnits, "in_progress") = 0)

\* C8 amended: the loop stops; when it has stopped, no unit of the manifest
\* that load returns is pending, every unit in it was tracked when the loop
\* was entered and is completed, failed or, if it was in_progress at loop
\* entry, in_progress; and unless overlapping writes have left the state file
\* unparsable, the units and their order are those of loop entry and the
\* units in_progress are exactly those that were in_progress then.
InProgressIn(d) == {d[i].name : i \in {j \in 1..Len(d) : d[j].data.status = "in_progress"}}
EntryUnits == get_manifest(loop.entry).frameworks
C8_LoopTerminates ==
    /\ <>(loop.pc = "done")
    /\ [](loop.pc = "done" =>
            /\ Count(PostUnits, "pending") = 0
            /\ InProgressIn(PostUnits) \subseteq InProgressIn(EntryUnits)
            /\ Keys(PostUnits) \subseteq Keys(EntryUnits)
            /\ \A i \in 1..Len(PostUnits) :
                  PostUnits[i].data.status \in {"in_progress", "completed", "failed"}
            /\ WellFormed(file.text) =>
                  /\ KeySeq(PostUnits) = KeySeq(EntryUnits)
                  /\ InProgressIn(PostUnits) = InProgressIn(EntryUnits))
C8_Witness ==
    /\ loop.pc = "done"
    /\ Count(EntryUnits, "pending") >= 2
    /\ Count(PostUnits, "completed") >= 2
    /\ outdirs # {}

\* C11: with the state file missing, or present but not parsable, status and
\* next do not fail: they exit 0, status lists no unit, next returns the
\* empty sequence, and the file is left as it was.
C11_LoadTolerates ==
    (last.cmd \in {"status", "next"}
        /\ (~last.pre.exists \/ read_text_raises(last.pre) \/ ~WellFormed(last.pre.text))) =>
        /\ last.exit = 0
        /\ ~last.raised
        /\ last.rows = <<>>
        /\ last.batch = <<>>
        /\ file = last.pre

\* C12: in the scenario, init leaves a, b and c pending; after mark a
\* in_progress, next --limit 2 returns the sequence <<b, c>>; after mark b
\* completed, mark c failed and reset-running, a is pending and has no output
\* directory; status then shows a pending, b completed, c failed.
StatusOf(d, n) == IF Has(d, n) THEN Get(d, n).status ELSE "untracked"
C12_Scenario ==
    /\ (loop.pc = "script" /\ last.cmd = "init") =>
          /\ Keys(PostUnits) = {"a", "b", "c"}
          /\ \A n \in {"a", "b", "c"} : StatusOf(PostUnits, n) = "pending"
    /\ (loop.pc = "script" /\ last.cmd = "next") => last.batch = <<"b", "c">>
    /\ (loop.pc = "script" /\ last.cmd = "reset-running") =>
          /\ StatusOf(PostUnits, "a") = "pending"
          /\ "a" \notin outdirs
    /\ (loop.pc = "script" /\ last.cmd = "status") =>
          last.rows = <<<<"a", "pending">>, <<"b", "completed">>, <<"c", "failed">>>>

\* C13: init with the source root missing exits with code 1 after its error
\* message and leaves the state file exactly as it was: nothing is saved.
C13_InitNeedsRoot ==
    (last.cmd = "init" /\ ~repos.exists) =>
        /\ last.exit = 1
        /\ ~last.raised
        /\ file = last.pre
C13_Witness ==
    /\ last.cmd = "init"
    /\ ~repos.exists
    /\ last.exit = 1
    /\ Len(PreUnits) >= 2
    /\ \E i \in 1..Len(PreUnits) : PreUnits[i].data.status = "in_progress"

\* C14: a manifest persisted by save and reloaded by load is equal to the
\* one persisted: the same names in the same order, each with the same status
\* and the same path.
C14_RoundTrip ==
    (procs[1].pc = "done" /\ procs[2].pc = "done") =>
        LET saved == procs[1].manifest.frameworks
            loaded == procs[2].manifest.frameworks
        IN /\ KeySeq(loaded) = KeySeq(saved)
           /\ \A i \in 1..Len(saved) :
                 /\ loaded[i].data.status = saved[i].data.status
                 /\ loaded[i].data.path = saved[i].data.path
           /\ procs[2].manifest = procs[1].manifest
C14_Witness ==
    /\ procs[1].pc = "done"
    /\ procs[2].pc = "done"
    /\ KeySeq(procs[2].manifest.frameworks) = <<"b", "a">>
    /\ procs[2].manifest.frameworks[1].data.status = "failed"
    /\ procs[2].manifest.frameworks[2].data.status = "in_progress"

\* C15: for a limit L >= 0, next returns exactly the first min(L, number of
\* pending units) pending names in the manifest's insertion order; a second
\* next with the same limit and nothing in between returns the same sequence;
\* for L >= 1 the result is empty exactly when no unit is pending; and the
\* insertion order is the discovery order: no command reorders or drops the
\* tracked names, new ones are appended.
Min(x, y) == IF x < y THEN x ELSE y
PendingIdx(d) == {i \in 1..Len(d) : d[i].data.status = "pending"}
\* The position in d of its k-th pending unit.
KthPending(d, k) ==
    CHOOSE i \in PendingIdx(d) : Cardinality({j \in PendingIdx(d) : j <= i}) = k
IsPrefix(x, y) == Len(x) <= Len(y) /\ SubSeq(y, 1, Len(x)) = x
C15_FirstPending ==
    (last.cmd = "next" /\ last.limit >= 0) =>
        /\ Len(last.batch) = Min(last.limit, Cardinality(PendingIdx(PreUnits)))
        /\ \A k \in 1..Len(last.batch) :
              last.batch[k] = PreUnits[KthPending(PreUnits, k)].name
        /\ last.again => last.batch = last.before
        /\ last.limit >= 1 => (last.batch = <<>> <=> PendingIdx(PreUnits) = {})
C15_NextOrder ==
    /\ []C15_FirstPending
    /\ [][IsPrefix(KeySeq(get_manifest(file).frameworks),
                   KeySeq(get_manifest(file').frameworks))]_vars
C15_Witness ==
    /\ last.cmd = "next"
    /\ last.again
    /\ last.limit = 1
    /\ KeySeq(PreUnits) = <<"b", "a">>
    /\ PendingIdx(PreUnits) = {1, 2}
    /\ last.batch = <<"b">>

\* C16: next and status leave the state file as it was (a missing file stays
\* missing, an unparsable one stays as it is) and touch no output directory;
\* status lists every tracked unit exactly once with its status, in
\* increasing name order whatever the manifest's order.
C16_ReadOnly ==
    (last.cmd \in {"next", "status"}) =>
        /\ file = last.pre
        /\ outdirs = last.preOut
        /\ last.cmd = "status" =>
              /\ Len(last.rows) = Len(PreUnits)
              /\ {last.rows[i][1] : i \in 1..Len(last.rows)} = Keys(PreUnits)
              /\ \A i \in 1..Len(last.rows) :
                    last.rows[i][2] = Get(PreUnits, last.rows[i][1]).status
              /\ \A i, j \in 1..Len(last.rows) :
                    i < j => NameRank(last.rows[i][1]) < NameRank(last.rows[j][1])
C16_Witness ==
    /\ last.cmd = "status"
    /\ KeySeq(PreUnits) = <<"b", "a">>
    /\ last.rows = <<<<"a", "in_progress">>, <<"b", "completed">>>>
    /\ outdirs = {"a"}

\* C17: after reset-running, no unit that was in_progress before the call has
\* an output directory (an existing one is deleted and reported, a missing
\* one is skipped), and every other output directory is as it was.
C17_SweepCleans ==
    last.cmd = "reset-running" =>
        /\ last.exit = 0
        /\ \A n \in InProgressIn(PreUnits) : n \notin outdirs
        /\ \A n \in (Names \cup last.preOut) \ InProgressIn(PreUnits) :
              n \in outdirs <=> n \in last.preOut
        /\ last.cleaned = last.preOut \cap InProgressIn(PreUnits)
C17_Witness ==
    /\ last.cmd = "reset-running"
    /\ last.preOut = {"a", "b"}
    /\ StatusOf(PreUnits, "a") = "in_progress"
    /\ StatusOf(PreUnits, "b") = "failed"
    /\ outdirs = {"b"}

\* C18: after a crash in the loop, the restart (init, then reset-running)
\* enters the loop with no unit in_progress, every unit that was completed or
\* failed at the crash still so, and every unit that was in_progress at the
\* crash pending; the loop then stops, and it stops with every tracked unit
\* completed or failed.
CrashUnits == get_manifest(loop.crashed).frameworks
EntryAfterCrash ==
    /\ InProgressIn(PostUnits) = {}
    /\ \A i \in 1..Len(CrashUnits) :
          /\ CrashUnits[i].data.status \in {"completed", "failed"} =>
                StatusOf(PostUnits, CrashUnits[i].name) = CrashUnits[i].data.status
          /\ CrashUnits[i].data.status = "in_progress" =>
                StatusOf(PostUnits, CrashUnits[i].name) = "pending"
C18_CrashRecovery ==
    /\ [][(loop.pc = "reset" /\ loop'.pc = "next" /\ loop.crashes > 0)
            => EntryAfterCrash']_vars
    /\ <>(loop.pc = "done")
    /\ [](loop.pc = "done" =>
            \A i \in 1..Len(PostUnits) :
                PostUnits[i].data.status \in {"completed", "failed"})

\* C19: reset-running writes the state file once, after its loop: until then
\* (and when it is interrupted before then) the file is as it was, with the
\* same units in_progress; a complete run after an interrupted one leaves
\* every unit the interrupted run owed a reset pending and without output
\* directory; and at no point does the file show as pending a unit the sweep
\* has reset while that unit's output directory still exists.
C19_PersistOnce ==
    Sweeping =>
        /\ procs[1].pc \in {"scan", "clean", "killed"} =>
              /\ file = last.pre
              /\ InProgressIn(PostUnits) = InProgressIn(PreUnits)
        /\ procs[1].pc = "done" =>
              /\ InProgressIn(PostUnits) = {}
              /\ KeySeq(PostUnits) = KeySeq(PreUnits)
              /\ last.count = Cardinality(InProgressIn(PreUnits))
              /\ \A n \in audit.owed \cup InProgressIn(PreUnits) :
                    StatusOf(PostUnits, n) = "pending" /\ n \notin outdirs
        /\ \A n \in InProgressIn(PreUnits) :
              StatusOf(PostUnits, n) = "pending" => n \notin outdirs
C19_Witness ==
    /\ SweepAt("done")
    /\ last.again
    /\ audit.owed = {"a", "b"}
    /\ last.preOut = {"b"}
    /\ last.cleaned = {"b"}
    /\ KeySeq(PreUnits) = <<"a", "b">>

\* C20: in a run that starts with init and reset-running and in which the
\* driver issues its commands one at a time, once the loop is entered at most
\* BatchLimit units are in_progress, and a unit is marked in_progress only
\* if it has not been dispatched before in this run and is not in_progress,
\* completed or failed at that moment.
Dispatching == loop.pc = "dispatch" /\ (loop'.i # loop.i \/ loop'.pc # "dispatch")
C20_BoundedDispatch ==
    /\ []((InLoop \/ loop.pc = "done") => Count(PostUnits, "in_progress") <= BatchLimit)
    /\ [][Dispatching =>
            /\ loop.batch[loop.i] \notin loop.dispatched
            /\ loop.batch[loop.i] \notin loop.running
            /\ StatusOf(PostUnits, loop.batch[loop.i])
                  \notin {"in_progress", "completed", "failed"}]_vars
C20_Witness ==
    /\ loop.pc = "wait"
    /\ Count(PostUnits, "in_progress") = BatchLimit
    /\ Count(PostUnits, "pending") >= 1
    /\ Count(EntryUnits, "pending") > BatchLimit

====
